---- MODULE Spec2Model ----
(***************************************************************************)
(* Model of gtts: text chunking (TextToSpeech._chunk_text), the sequential *)
(* synthesis driver and WAV writer (TextToSpeech.generate_from_text), the  *)
(* eager configuration checks (TextToSpeech.__init__) and the CLI entry    *)
(* points that call them (cli.speak / cli.convert).                        *)
(*                                                                         *)
(* A Python str is a sequence of one-character strings; a Python bytes     *)
(* object is a sequence of integers in 0..255.                             *)
(***************************************************************************)
EXTENDS Integers, Sequences, FiniteSets, TLC

\* ------------------------------------------------------------------ bounds
\* longest input text explored by the chunker specification
MaxLen == 7
\* largest settings.max_chunk_chars explored by the chunker specification
MaxChars == 6
\* longest input text explored by the driver specification
DriverMaxLen == 5
\* largest settings.max_chunk_chars explored by the driver specification
DriverMaxChars == 2
\* longest observed latency (in ticks) of one synthesis call
MaxLatency == 1

\* ------------------------------------------------------------- characters
SP == " "
NL == "\n"
DOT == "."
\* the characters input texts are drawn from: a letter, the period, and the
\* two whitespace characters the chunker treats specially
Chars == {"a", DOT, SP, NL}
\* str.strip() with no argument strips whitespace
Whitespace == {SP, NL}

\* the driver only sees a text through its chunk list; its texts leave the
\* period out
DriverChars == {"a", SP, NL}

\* every text over alphabet of length <= n
RECURSIVE TextsUpTo(_, _)
TextsUpTo(alphabet, n) ==
    IF n = 0 THEN {<<>>}
    ELSE LET shorter == TextsUpTo(alphabet, n - 1)
         IN  shorter \cup {Append(t, c) : t \in {s \in shorter : Len(s) = n - 1},
                                          c \in alphabet}

\* the texts handed to _chunk_text on its own, and to generate_from_text
ChunkTexts == TextsUpTo(Chars, MaxLen)
DriverTexts == TextsUpTo(DriverChars, DriverMaxLen)

\* ------------------------------------------------------- string primitives
\* str.split(sep) for a one- or two-character separator: scans left to right,
\* cutting at every non-overlapping occurrence; always returns >= 1 piece
RECURSIVE split_acc(_, _, _, _)
split_acc(s, sep, i, piece) ==
    IF i > Len(s) THEN <<piece>>
    ELSE IF i + Len(sep) - 1 <= Len(s) /\ SubSeq(s, i, i + Len(sep) - 1) = sep
         THEN <<piece>> \o split_acc(s, sep, i + Len(sep), <<>>)
         ELSE split_acc(s, sep, i + 1, Append(piece, s[i]))

split(s, sep) == split_acc(s, sep, 1, <<>>)

\* str.replace(old, new): every non-overlapping occurrence, left to right
RECURSIVE replace_from(_, _, _, _)
replace_from(s, old, new, i) ==
    IF i > Len(s) THEN <<>>
    ELSE IF i + Len(old) - 1 <= Len(s) /\ SubSeq(s, i, i + Len(old) - 1) = old
         THEN new \o replace_from(s, old, new, i + Len(old))
         ELSE <<s[i]>> \o replace_from(s, old, new, i + 1)

replace(s, old, new) == replace_from(s, old, new, 1)

RECURSIVE lstrip(_)
lstrip(s) == IF s # <<>> /\ s[1] \in Whitespace THEN lstrip(Tail(s)) ELSE s

RECURSIVE rstrip(_)
rstrip(s) ==
    IF s # <<>> /\ s[Len(s)] \in Whitespace THEN rstrip(SubSeq(s, 1, Len(s) - 1)) ELSE s

strip(s) == rstrip(lstrip(s))

\* --------------------------------------------------------------- chunker
\* tts.py:87  len(current_chunk) + len(para) + 2 > max_chars
para_overflows(current_chunk, para, max_chars) ==
    Len(current_chunk) + Len(para) + 2 > max_chars

sentence_overflows_no_sep(current_chunk, sentence, max_chars) ==
    Len(current_chunk) + Len(sentence) > max_chars

\* tts.py:96  len(current_chunk) + len(sentence) + 1 > max_chars
sentence_overflows(current_chunk, sentence, max_chars) ==
    Len(current_chunk) + Len(sentence) + 1 > max_chars

emit_always(chunks, current_chunk) == Append(chunks, strip(current_chunk))

\* tts.py:88-89, 97-98, 107-108  if current_chunk: chunks.append(current_chunk.strip())
emit(chunks, current_chunk) ==
    IF current_chunk # <<>> THEN Append(chunks, strip(current_chunk)) ELSE chunks

join_sentence_glued(current_chunk, sentence) == current_chunk \o sentence

\* tts.py:101  current_chunk += " " + sentence if current_chunk else sentence
join_sentence(current_chunk, sentence) ==
    current_chunk \o (IF current_chunk # <<>> THEN <<SP>> \o sentence ELSE sentence)

\* tts.py:105  current_chunk += "\n\n" + para if current_chunk else para
join_para(current_chunk, para) ==
    current_chunk \o (IF current_chunk # <<>> THEN <<NL, NL>> \o para ELSE para)

\* tts.py:93  para.replace(". ", ".\n").split("\n")
sentences_of(para) == split(replace(para, <<DOT, SP>>, <<DOT, NL>>), <<NL>>)

needs_sentence_split_eager(para, max_chars) == Len(para) + 2 > max_chars

\* tts.py:91  len(para) > max_chars
needs_sentence_split(para, max_chars) == Len(para) > max_chars

\* tts.py:95-101  the loop over sentences; st = [chunks, current_chunk]
RECURSIVE sentence_loop(_, _, _, _)
sentence_loop(sentences, k, st, max_chars) ==
    IF k > Len(sentences) THEN st
    ELSE LET sentence == sentences[k]
             nxt == IF sentence_overflows(st.current_chunk, sentence, max_chars)
                    THEN [chunks |-> emit(st.chunks, st.current_chunk),
                          current_chunk |-> sentence]
                    ELSE [chunks |-> st.chunks,
                          current_chunk |-> join_sentence(st.current_chunk, sentence)]
         IN  sentence_loop(sentences, k + 1, nxt, max_chars)

\* tts.py:85-105  the loop over paragraphs; st = [chunks, current_chunk]
RECURSIVE paragraph_loop(_, _, _, _)
paragraph_loop(paragraphs, k, st, max_chars) ==
    IF k > Len(paragraphs) THEN st
    ELSE LET para == paragraphs[k]
             nxt == IF para_overflows(st.current_chunk, para, max_chars)
                    THEN LET flushed == emit(st.chunks, st.current_chunk)
                         IN  IF needs_sentence_split(para, max_chars)
                             THEN sentence_loop(sentences_of(para), 1,
                                      [chunks |-> flushed, current_chunk |-> <<>>],
                                      max_chars)
                             ELSE [chunks |-> flushed, current_chunk |-> para]
                    ELSE [chunks |-> st.chunks,
                          current_chunk |-> join_para(st.current_chunk, para)]
         IN  paragraph_loop(paragraphs, k + 1, nxt, max_chars)

\* tts.py:69-110  TextToSpeech._chunk_text, max_chars = settings.max_chunk_chars
_chunk_text(text, max_chars) ==
    LET paragraphs == split(text, <<NL, NL>>)
        st == paragraph_loop(paragraphs, 1,
                             [chunks |-> <<>>, current_chunk |-> <<>>], max_chars)
    IN  emit(st.chunks, st.current_chunk)

\* ---------------------------------------------------------- configuration
\* config.py:50-81
AVAILABLE_VOICES ==
    {"Zephyr", "Puck", "Charon", "Kore", "Fenrir", "Leda", "Orus", "Aoede",
     "Callirrhoe", "Autonoe", "Enceladus", "Iapetus", "Umbriel", "Algieba",
     "Despina", "Erinome", "Algenib", "Rasalgethi", "Laomedeia", "Achernar",
     "Alnilam", "Schedar", "Gacrux", "Pulcherrima", "Achird", "Zubenelgenubi",
     "Vindemiatrix", "Sadachbia", "Sadaltager", "Sulafat"}

\* config.py:13-46  the fields of Settings the model reads.  Every field can
\* be overridden from the environment, so a run may start with any of these.
ApiKeys == {"", "key"}
DefaultVoices == {"Kore", "Bogus"}
AudioFormats ==
    {[sample_rate |-> 24000, channels |-> 1, sample_width |-> 2],
     [sample_rate |-> 8000, channels |-> 2, sample_width |-> 1]}

SettingsWith(maxes) ==
    {[google_api_key |-> k, default_voice |-> v, sample_rate |-> f.sample_rate,
      channels |-> f.channels, sample_width |-> f.sample_width,
      max_chunk_chars |-> m] :
        k \in ApiKeys, v \in DefaultVoices, f \in AudioFormats, m \in maxes}

\* cli.py:36-41, 62-67  --voice; "" stands for a falsy argument
VoiceArgs == {"", "Kore", "Puck", "Bogus"}

\* what one synthesis call may return: raw PCM of any length
AudioResults == {<<1>>, <<2, 3>>}

\* the output file before the run
NoFile == <<"absent">>
OldFile == <<7, 7, 7>>

\* --------------------------------------------------------- RIFF/WAVE file
\* struct.pack('<H'/'<L'): little-endian unsigned integer of the given width
RECURSIVE pack_le(_, _)
pack_le(n, width) ==
    IF width = 0 THEN <<>> ELSE <<n % 256>> \o pack_le(n \div 256, width - 1)

\* ASCII codes of the four chunk tags; the format tag written after
\* "fmt " and its length 16 is 1, WAVE_FORMAT_PCM
RIFF == <<82, 73, 70, 70>>
WAVE == <<87, 65, 86, 69>>
FMT == <<102, 109, 116, 32>>
DATA == <<100, 97, 116, 97>>

wave_header_bits_as_bytes(nchannels, sampwidth, framerate, datalength) ==
    RIFF \o pack_le(36 + datalength, 4) \o WAVE \o FMT \o pack_le(16, 4)
         \o pack_le(1, 2) \o pack_le(nchannels, 2)
         \o pack_le(framerate, 4)
         \o pack_le(nchannels * framerate * sampwidth, 4)
         \o pack_le(nchannels * sampwidth, 2)
         \o pack_le(sampwidth, 2)
         \o DATA \o pack_le(datalength, 4)

\* the header Wave_write writes for these parameters and data length
\* (tts.py:146-148 set the three parameters)
wave_header(nchannels, sampwidth, framerate, datalength) ==
    RIFF \o pack_le(36 + datalength, 4) \o WAVE \o FMT \o pack_le(16, 4)
         \o pack_le(1, 2) \o pack_le(nchannels, 2)
         \o pack_le(framerate, 4)
         \o pack_le(nchannels * framerate * sampwidth, 4)
         \o pack_le(nchannels * sampwidth, 2)
         \o pack_le(sampwidth * 8, 2)
         \o DATA \o pack_le(datalength, 4)

\* tts.py:145-149  the bytes of the file once the with-block has closed it:
\* writeframes writes the header for the whole frames of data, then data, and
\* patches both length fields when data holds a partial frame
wave_write(s, data) ==
    LET framesize == s.channels * s.sample_width
        nframes == Len(data) \div framesize
        datalength == nframes * framesize
        datawritten == Len(data)
        final == IF datalength # datawritten THEN datawritten ELSE datalength
    IN  wave_header(s.channels, s.sample_width, s.sample_rate, final) \o data

\* tts.py:141  b"".join(all_audio)
join(parts) ==
    LET RECURSIVE j(_)
        j(k) == IF k = 0 THEN <<>> ELSE j(k - 1) \o parts[k]
    IN  j(Len(parts))

\* ------------------------------------------------------------------ state
VARIABLES
    settings,     \* config.settings
    pc,           \* where the CLI command is
    voice,        \* TextToSpeech.voice
    client,       \* TRUE once genai.Client(...) has been created
    text,         \* the text handed to generate_from_text
    chunks,       \* generate_from_text: chunks
    idx,          \* generate_from_text: chunks synthesized so far
    all_audio,    \* generate_from_text: all_audio
    latency,      \* ticks the call in flight has been waiting
    calls,        \* every generate_content request sent, in order, with
                  \* its outcome
    dir_exists,   \* output_path.parent exists
    file,         \* bytes of the file at output_path, or NoFile
    fs0           \* dir_exists and file as they were before the run

vars == <<settings, pc, voice, client, text, chunks, idx, all_audio, latency,
          calls, dir_exists, file, fs0>>

\* the output path before the run: no directory, an empty directory, or a
\* directory holding an older file
InitFs ==
    /\ \/ dir_exists = FALSE /\ file = NoFile
       \/ dir_exists = TRUE /\ file \in {NoFile, OldFile}
    /\ fs0 = [dir_exists |-> dir_exists, file |-> file]

InitRest ==
    /\ voice = "" /\ client = FALSE
    /\ text = <<>> /\ chunks = <<>> /\ idx = 0 /\ all_audio = <<>>
    /\ latency = 0 /\ calls = <<>>

Init ==
    /\ settings \in SettingsWith(1..DriverMaxChars)
    /\ pc = "cli"
    /\ InitRest
    /\ InitFs

init_skip_voice_check(v) ==
    /\ pc = "cli"
    /\ voice' = (IF v # "" THEN v ELSE settings.default_voice)
    /\ IF settings.google_api_key = ""
       THEN pc' = "exit1" /\ client' = FALSE
       ELSE pc' = "ready" /\ client' = TRUE
    /\ UNCHANGED <<settings, text, chunks, idx, all_audio, latency, calls,
                   dir_exists, file, fs0>>

\* tts.py:19-39  TextToSpeech.__init__(voice=v), called at cli.py:45/71/154;
\* a ValueError is caught at cli.py:48-50 and the command exits with status 1
TextToSpeech_init(v) ==
    /\ pc = "cli"
    /\ voice' = (IF v # "" THEN v ELSE settings.default_voice)
    /\ IF voice' \notin AVAILABLE_VOICES
       THEN pc' = "exit1" /\ client' = FALSE
       ELSE IF settings.google_api_key = ""
            THEN pc' = "exit1" /\ client' = FALSE
            ELSE pc' = "ready" /\ client' = TRUE
    /\ UNCHANGED <<settings, text, chunks, idx, all_audio, latency, calls,
                   dir_exists, file, fs0>>

\* tts.py:122-123  generate_from_text(t, output_path) up to the loop
generate_from_text(t) ==
    /\ pc = "ready"
    /\ text' = t
    /\ chunks' = _chunk_text(t, settings.max_chunk_chars)
    /\ all_audio' = <<>>
    /\ idx' = 0
    /\ pc' = "loop"
    /\ UNCHANGED <<settings, voice, client, latency, calls, dir_exists, file, fs0>>

\* tts.py:134-136, 50-63  the loop takes the next chunk and generate_audio
\* sends the request
generate_audio_call ==
    /\ pc = "loop"
    /\ idx < Len(chunks)
    /\ calls' = Append(calls, [contents |-> chunks[idx + 1], voice_name |-> voice,
                               api_key |-> settings.google_api_key,
                               status |-> "pending", data |-> <<>>])
    /\ latency' = 0
    /\ pc' = "waiting"
    /\ UNCHANGED <<settings, voice, client, text, chunks, idx, all_audio,
                   dir_exists, file, fs0>>

\* the blocking call at tts.py:50 has not answered yet
generate_audio_wait ==
    /\ pc = "waiting"
    /\ latency < MaxLatency
    /\ latency' = latency + 1
    /\ UNCHANGED <<settings, pc, voice, client, text, chunks, idx, all_audio,
                   calls, dir_exists, file, fs0>>

generate_audio_return_prepend(data) ==
    /\ pc = "waiting"
    /\ all_audio' = <<data>> \o all_audio
    /\ idx' = idx + 1
    /\ calls' = [calls EXCEPT ![Len(calls)] = [@ EXCEPT !.status = "ok", !.data = data]]
    /\ latency' = 0
    /\ pc' = "loop"
    /\ UNCHANGED <<settings, voice, client, text, chunks,
                   dir_exists, file, fs0>>

\* tts.py:66-67, 136-138  the call answers with audio; it is appended
generate_audio_return(data) ==
    /\ pc = "waiting"
    /\ all_audio' = Append(all_audio, data)
    /\ idx' = idx + 1
    /\ calls' = [calls EXCEPT ![Len(calls)] = [@ EXCEPT !.status = "ok", !.data = data]]
    /\ latency' = 0
    /\ pc' = "loop"
    /\ UNCHANGED <<settings, voice, client, text, chunks,
                   dir_exists, file, fs0>>

generate_audio_raise_salvage ==
    /\ pc = "waiting"
    /\ calls' = [calls EXCEPT ![Len(calls)].status = "failed"]
    /\ latency' = 0
    /\ pc' = "exit1"
    /\ dir_exists' = TRUE
    /\ file' = wave_write(settings, join(all_audio))
    /\ UNCHANGED <<settings, voice, client, text, chunks, idx, all_audio,
                   fs0>>

\* tts.py:136  the call raises; nothing in generate_from_text catches it, so
\* it reaches cli.py:48-50 and the command exits with status 1.  The locals
\* are shown as they were when the frame was abandoned.
generate_audio_raise ==
    /\ pc = "waiting"
    /\ calls' = [calls EXCEPT ![Len(calls)].status = "failed"]
    /\ latency' = 0
    /\ pc' = "exit1"
    /\ UNCHANGED <<settings, voice, client, text, chunks, idx, all_audio,
                   dir_exists, file, fs0>>

mkdir_parents_no_create ==
    /\ pc = "loop"
    /\ idx = Len(chunks)
    /\ pc' = "write"
    /\ UNCHANGED <<settings, voice, client, text, chunks, idx, all_audio,
                   latency, calls, dir_exists, file, fs0>>

\* tts.py:134, 144  the loop is exhausted; the parent directory is created
mkdir_parents ==
    /\ pc = "loop"
    /\ idx = Len(chunks)
    /\ dir_exists' = TRUE
    /\ pc' = "write"
    /\ UNCHANGED <<settings, voice, client, text, chunks, idx, all_audio,
                   latency, calls, file, fs0>>

\* tts.py:141, 145-151  the combined buffer is written as a WAV file and the
\* path is returned
write_wav ==
    /\ pc = "write"
    /\ file' = wave_write(settings, join(all_audio))
    /\ pc' = "done"
    /\ UNCHANGED <<settings, voice, client, text, chunks, idx, all_audio,
                   latency, calls, dir_exists, fs0>>

Next ==
    \/ \E v \in VoiceArgs : TextToSpeech_init(v)
    \/ pc = "ready" /\ \E t \in DriverTexts : generate_from_text(t)
    \/ generate_audio_call
    \/ generate_audio_wait
    \/ \E data \in AudioResults : generate_audio_return(data)
    \/ generate_audio_raise
    \/ mkdir_parents
    \/ write_wav

Spec == Init /\ [][Next]_vars

\* ------------------------------------------------ chunker on its own
\* a synthesizer with the default configuration about to chunk a text
ChunkInit ==
    /\ settings \in {s \in SettingsWith(1..MaxChars) :
                        /\ s.google_api_key = "key" /\ s.default_voice = "Kore"
                        /\ s.sample_rate = 24000}
    /\ pc = "ready"
    /\ voice = "Kore" /\ client = TRUE
    /\ text = <<>> /\ chunks = <<>> /\ idx = 0 /\ all_audio = <<>>
    /\ latency = 0 /\ calls = <<>>
    /\ dir_exists = FALSE /\ file = NoFile
    /\ fs0 = [dir_exists |-> FALSE, file |-> NoFile]

\* tts.py:122  chunks = self._chunk_text(text)
chunk_text(t) ==
    /\ pc = "ready"
    /\ text' = t
    /\ chunks' = _chunk_text(t, settings.max_chunk_chars)
    /\ pc' = "chunked"
    /\ UNCHANGED <<settings, voice, client, idx, all_audio, latency, calls,
                   dir_exists, file, fs0>>

ChunkNext == pc = "ready" /\ \E t \in ChunkTexts : chunk_text(t)

ChunkSpec == ChunkInit /\ [][ChunkNext]_vars

\* ===================================================== properties: chunker
max_chunk_chars == settings.max_chunk_chars

\* sub occurs in s as a contiguous substring
Contains(s, sub) ==
    \E i \in 1..(Len(s) - Len(sub) + 1) : SubSeq(s, i, i + Len(sub) - 1) = sub

\* the maximal runs of non-whitespace characters of s, in order
RECURSIVE WordsFrom(_, _, _)
WordsFrom(s, i, word) ==
    IF i > Len(s) THEN (IF word = <<>> THEN <<>> ELSE <<word>>)
    ELSE IF s[i] \in Whitespace
         THEN (IF word = <<>> THEN <<>> ELSE <<word>>) \o WordsFrom(s, i + 1, <<>>)
         ELSE WordsFrom(s, i + 1, Append(word, s[i]))

Words(s) == WordsFrom(s, 1, <<>>)

\* the words of the first n chunks, chunk after chunk
RECURSIVE WordsOfChunks(_, _)
WordsOfChunks(cs, n) ==
    IF n = 0 THEN <<>> ELSE WordsOfChunks(cs, n - 1) \o Words(cs[n])

\* c is t without its leading and trailing whitespace
IsTrimOf(c, t) ==
    IF \A i \in 1..Len(t) : t[i] \in Whitespace
    THEN c = <<>>
    ELSE \E i, j \in 1..Len(t) :
            /\ i <= j /\ c = SubSeq(t, i, j)
            /\ t[i] \notin Whitespace /\ t[j] \notin Whitespace
            /\ \A k \in 1..Len(t) : (k < i \/ k > j) => t[k] \in Whitespace

\* c is one sentence of the input: a piece of the text with no ". " sentence
\* boundary and no paragraph delimiter in it
IsSingleSentence(c) ==
    /\ Contains(text, c)
    /\ ~Contains(c, <<DOT, SP>>)
    /\ ~Contains(c, <<NL, NL>>)

\* C1: every chunk returned by _chunk_text is at most max_chunk_chars long,
\* unless the chunk is a single sentence that is itself longer than that.
C1_ChunkWithinLimitOrOneSentence ==
    pc = "chunked" =>
        \A k \in 1..Len(chunks) :
            \/ Len(chunks[k]) <= max_chunk_chars
            \/ IsSingleSentence(chunks[k])

\* a text that is split at a sentence boundary into a chunk within the limit
\* and a single sentence over the limit
C1_Witness ==
    /\ pc = "chunked"
    /\ Contains(text, <<DOT, SP>>)
    /\ \E j, k \in 1..Len(chunks) :
          /\ Len(chunks[j]) <= max_chunk_chars
          /\ Len(chunks[k]) > max_chunk_chars /\ IsSingleSentence(chunks[k])

\* C2: for a non-empty text the chunks, read in list order, hold the words of
\* the text in the same order, none dropped, duplicated or reordered; only
\* the whitespace between them differs.
C2_ChunksPreserveContent ==
    (pc = "chunked" /\ text # <<>>) =>
        WordsOfChunks(chunks, Len(chunks)) = Words(text)

\* a paragraph too long for one chunk whose sentences were rejoined with a
\* space and then cut into several chunks
C2_Witness ==
    /\ pc = "chunked"
    /\ Len(chunks) >= 2
    /\ ~Contains(text, <<NL, NL>>)
    /\ \E k \in 1..Len(chunks) : Len(Words(chunks[k])) >= 2 /\ ~Contains(text, chunks[k])
    /\ WordsOfChunks(chunks, Len(chunks)) = Words(text)

\* C6: every element of the list returned by _chunk_text is a non-empty
\* string.
C6_NoEmptyChunk ==
    pc = "chunked" => \A k \in 1..Len(chunks) : chunks[k] # <<>>

\* C8 as stated: a text no longer than max_chunk_chars with no paragraph break
\* gives exactly one chunk, the trimmed text.
C8_ShortTextOneChunk_AsStated ==
    (pc = "chunked" /\ Len(text) <= max_chunk_chars /\ ~Contains(text, <<NL, NL>>)) =>
        (Len(chunks) = 1 /\ IsTrimOf(chunks[1], text))

\* C8 (amended): a non-empty text no longer than max_chunk_chars with no
\* paragraph break gives exactly one chunk, the trimmed text.
C8_ShortTextOneChunk ==
    (/\ pc = "chunked" /\ text # <<>>
     /\ Len(text) <= max_chunk_chars /\ ~Contains(text, <<NL, NL>>)) =>
        (Len(chunks) = 1 /\ IsTrimOf(chunks[1], text))

\* a text of length max_chunk_chars - 1 or max_chunk_chars, where the +2 test
\* fires, with whitespace to trim and a sentence boundary inside
C8_Witness ==
    /\ pc = "chunked"
    /\ Len(text) \in {max_chunk_chars - 1, max_chunk_chars}
    /\ ~Contains(text, <<NL, NL>>)
    /\ Contains(text, <<DOT, SP>>)
    /\ text[1] \in Whitespace
    /\ Len(chunks) = 1 /\ chunks[1] # text /\ chunks[1] # <<>>

\* the whitespace that follows the n-th word of s (before the first word when
\* n = 0), up to the next word or the end of s
Gap(s, n) ==
    LET RECURSIVE g(_, _, _)
        g(i, seen, inword) ==
            IF i > Len(s) THEN <<>>
            ELSE IF s[i] \in Whitespace
                 THEN (IF seen = n THEN <<s[i]>> ELSE <<>>) \o g(i + 1, seen, FALSE)
                 ELSE IF seen = n /\ ~inword THEN <<>>
                      ELSE g(i + 1, IF inword THEN seen ELSE seen + 1, TRUE)
    IN  g(1, 0, FALSE)

\* the boundary after the first n words of the text is a paragraph delimiter
\* or a ". " sentence boundary
AtParagraphOrSentenceBoundary(n) ==
    LET gap == Gap(text, n)
        ws == Words(text)
    IN  \/ Contains(gap, <<NL, NL>>)
        \/ /\ n >= 1 /\ n <= Len(ws)
           /\ ws[n][Len(ws[n])] = DOT
           /\ gap # <<>> /\ gap[1] = SP

\* C9: every boundary between two consecutive chunks lies at a paragraph
\* delimiter or at a ". " sentence boundary of the input, and none falls
\* inside a word.
C9_BoundariesAtDelimiters ==
    pc = "chunked" =>
        /\ WordsOfChunks(chunks, Len(chunks)) = Words(text)
        /\ \A k \in 1..(Len(chunks) - 1) :
              AtParagraphOrSentenceBoundary(Len(WordsOfChunks(chunks, k)))

\* ====================================================== properties: driver
\* generate_from_text has been entered
Started == client /\ pc # "ready"

\* the audio the synthesis calls have answered with, in call order
Responses ==
    LET RECURSIVE r(_)
        r(k) == IF k = 0 THEN <<>> ELSE r(k - 1) \o calls[k].data
    IN  r(Len(calls))

\* the data section of a written file: what follows the header
Payload(f) == SubSeq(f, 44 + 1, Len(f))

\* the little-endian unsigned integer held in bytes from..to of f
Field(f, from, to) ==
    LET RECURSIVE v(_)
        v(i) == IF i > to THEN 0 ELSE f[i] + 256 * v(i + 1)
    IN  v(from)

\* C3: generate_audio is invoked once per chunk, in chunk order, each call
\* answered before the next is issued, and the data written to the file is
\* the concatenation of the answers in that order, whatever the latency.
C3_SequentialInOrder ==
    Started =>
        /\ Len(calls) <= Len(chunks)
        /\ \A k \in 1..Len(calls) :
              /\ calls[k].contents = chunks[k]
              /\ k < Len(calls) => calls[k].status = "ok"
        /\ (pc = "waiting") <=> (calls # <<>> /\ calls[Len(calls)].status = "pending")
        /\ pc \in {"loop", "write", "done"} =>
              (Len(calls) = idx /\ \A k \in 1..Len(calls) : calls[k].status = "ok")
        /\ pc \in {"write", "done"} => Len(calls) = Len(chunks)
        /\ pc = "done" => Payload(file) = Responses

\* three chunks answered with audio of different lengths, written in order
C3_Witness ==
    /\ pc = "done"
    /\ Len(chunks) = 3 /\ Len(calls) = 3
    /\ calls[1].data = <<2, 3>> /\ calls[2].data = <<1>> /\ calls[3].data = <<2, 3>>
    /\ Payload(file) = <<2, 3, 1, 2, 3>>

\* C4: if generate_audio fails on chunk k, the run ends there: no call for a
\* later chunk, no second call for chunk k, the output file and its parent
\* directory are as they were before the run, and so the audio of the chunks
\* before k is not on disk.
C4_FailureAbortsWithoutOutput ==
    (\E k \in 1..Len(calls) : calls[k].status = "failed") =>
        /\ pc = "exit1"
        /\ ~ENABLED Next
        /\ LET k == Len(calls)
           IN  /\ calls[k].status = "failed"
               /\ k = idx + 1
               /\ \A j \in 1..k : calls[j].contents = chunks[j]
               /\ \A j \in 1..(k - 1) : calls[j].status = "ok"
        /\ file = fs0.file
        /\ dir_exists = fs0.dir_exists

\* the second of three chunks fails after the first was answered, with no
\* output directory before the run
C4_Witness ==
    /\ pc = "exit1"
    /\ Len(chunks) = 3 /\ Len(calls) = 2
    /\ calls[1].status = "ok" /\ calls[2].status = "failed"
    /\ all_audio = <<calls[1].data>>
    /\ file = NoFile /\ ~dir_exists /\ ~fs0.dir_exists

\* C5: after a run in which every chunk was synthesized, the file is a
\* 44-byte RIFF/WAVE header followed by exactly the combined buffer, and the
\* header's frame rate, channel count and bits per sample decode back to
\* settings.sample_rate, settings.channels and 8 * settings.sample_width.
C5_WavRoundTrip ==
    pc = "done" =>
        LET L == Len(Responses)
        IN  /\ Len(file) = 44 + L
            /\ Payload(file) = Responses
            /\ SubSeq(file, 1, 4) = RIFF
            /\ Field(file, 5, 8) = 36 + L
            /\ SubSeq(file, 9, 12) = WAVE
            /\ SubSeq(file, 13, 16) = FMT
            /\ Field(file, 17, 20) = 16
            /\ Field(file, 21, 22) = 1
            /\ Field(file, 23, 24) = settings.channels
            /\ Field(file, 25, 28) = settings.sample_rate
            /\ Field(file, 35, 36) = 8 * settings.sample_width
            /\ SubSeq(file, 37, 40) = DATA
            /\ Field(file, 41, 44) = L

\* a 16-bit mono file holding three bytes, one and a half frames, written
\* over an older file
C5_Witness ==
    /\ pc = "done"
    /\ settings.sample_width = 2 /\ settings.sample_rate = 24000
    /\ fs0.file = OldFile
    /\ Len(calls) = 2
    /\ Len(file) = 44 + 3
    /\ Payload(file) = <<1, 2, 3>>

\* C7: for the empty text _chunk_text returns the empty list and
\* generate_from_text issues no synthesis call.
C7_EmptyTextNoChunksNoCalls ==
    (Started /\ text = <<>>) => (chunks = <<>> /\ calls = <<>>)

\* a run on the empty text that went through to the end, with
\* max_chunk_chars = 1 so that the +2 test fires on the empty paragraph
C7_Witness ==
    /\ pc = "done"
    /\ text = <<>>
    /\ max_chunk_chars = 1
    /\ chunks = <<>> /\ calls = <<>>

\* C10: a voice outside AVAILABLE_VOICES or a missing API key makes
\* TextToSpeech(...) raise: no client is created, no synthesis call is ever
\* issued with such a voice or without a key, and no output file is written.
C10_EagerConfigurationCheck ==
    /\ client => (voice \in AVAILABLE_VOICES /\ settings.google_api_key # "")
    /\ \A k \in 1..Len(calls) :
          calls[k].voice_name \in AVAILABLE_VOICES /\ calls[k].api_key # ""
    /\ (pc # "cli" /\ (voice \notin AVAILABLE_VOICES \/ settings.google_api_key = "")) =>
          /\ pc = "exit1"
          /\ ~client
          /\ calls = <<>>
          /\ file = fs0.file /\ dir_exists = fs0.dir_exists
          /\ ~ENABLED Next

\* construction refused an unknown voice although the API key was set
C10_Witness ==
    /\ pc = "exit1"
    /\ voice = "Bogus"
    /\ settings.google_api_key = "key"
    /\ ~client /\ calls = <<>> /\ file = fs0.file

\* C11: with an empty chunk list generate_from_text still runs to the end
\* without an error: no synthesis call, the parent directory is created, the
\* file written is the 44-byte header with a data section of length 0, and
\* the path is returned.  In every run the directory creation and the file
\* write come after the last synthesis call.
C11_EmptyChunkListStillWrites ==
    /\ (Started /\ chunks = <<>>) =>
          /\ calls = <<>>
          /\ pc \in {"loop", "write", "done"}
          /\ pc = "loop" => (ENABLED mkdir_parents /\ ~ENABLED generate_audio_call)
          /\ pc = "write" => (dir_exists /\ file = fs0.file /\ ENABLED write_wav)
          /\ pc = "done" =>
                /\ dir_exists
                /\ Len(file) = 44
                /\ SubSeq(file, 1, 4) = RIFF
                /\ Field(file, 5, 8) = 36
                /\ Field(file, 41, 44) = 0
                /\ Payload(file) = <<>>
    /\ (dir_exists # fs0.dir_exists \/ file # fs0.file) => pc \in {"write", "done"}
    /\ pc \in {"write", "done"} =>
          /\ dir_exists
          /\ Len(calls) = Len(chunks)
          /\ \A k \in 1..Len(calls) : calls[k].status = "ok"
          /\ ~ENABLED generate_audio_call

\* a text of two newlines has no chunk; the run created the missing
\* directory and wrote a header-only file
C11_Witness ==
    /\ pc = "done"
    /\ text = <<NL, NL>>
    /\ chunks = <<>> /\ calls = <<>>
    /\ ~fs0.dir_exists /\ dir_exists
    /\ fs0.file = NoFile /\ Len(file) = 44

====
